---- MODULE Spec2Model ----
(***************************************************************************)
(* Model of the dashboard front-end: the view resolution of app.py         *)
(* (show_tab, called by main() for every view of the current project) and  *)
(* the hierarchy graphs built by the architecture renderers of             *)
(* catapultdashboardsrc.                                                   *)
(***************************************************************************)
EXTENDS Integers, Sequences, FiniteSets, TLC

VARIABLES
    projectlist,    \* st.session_state['projectlist']: sequence of descriptors
    currproject,    \* st.session_state['currproject']: a name, or None
    modules,        \* importable modules: <<namespace, module name>> -> status
    files,          \* <base>.csv of every project folder: <<folder, base>> -> state
    pc,             \* position of the script pass: "idle", "main", "crashed"
    idx,            \* number of views main() has handed to show_tab in this pass
    trace,          \* what every show_tab call of this pass did
    gview,          \* the hierarchy graph being built (which renderer loop)
    records,        \* the rows of the dataframe the loop iterates over
    gpos,           \* number of rows the loop has processed
    body,           \* dot.body: the statements emitted so far
    last,           \* the statements emitted for the last processed row
    chart,          \* the graph handed to st.graphviz_chart, once built
    hascol,         \* completesystemsdf has a "Subsystem" column
    selection,      \* subsystemopts: the value of the multiselect
    subsetdot,      \* the subset Digraph of the last pass, when one was built
    seen,           \* per selection, the graph first shown for it
    sstatus,        \* last System Logical Architecture pass: "none", "shown", "raised"
    mcsv,           \* Mission view: state of each artifact's CSV file
    mjson,          \* Mission view: whether each artifact's JSON file exists
    mbefore,        \* the CSV files as the last Mission pass found them
    mlog,           \* what the last Mission pass put on the page, in order
    session,        \* st.session_state: authentication_status, username, name
    keys,           \* the keys present in st.session_state
    users_file,     \* _auth/users.toml
    secrets,        \* the usernames of st.secrets["credentials"]
    lastop,         \* what the user submitted in the last script pass
    page,           \* what the last script pass rendered
    viewfolder,     \* the project folder a view pass finds: CSV states, JSON files
    standalone,     \* what the view's own module did in that pass
    consolidated    \* what architecture.py did in that pass, on the same folder

resolverVars == <<projectlist, currproject, modules, files, pc, idx, trace>>
graphVars == <<gview, records, gpos, body, last, chart>>
systemVars == <<hascol, selection, subsetdot, seen, sstatus>>
missionVars == <<mcsv, mjson, mbefore, mlog>>
authVars == <<session, keys, users_file, secrets, lastop, page>>
viewVars == <<viewfolder, standalone, consolidated>>
vars == <<projectlist, currproject, modules, files, pc, idx, trace,
          gview, records, gpos, body, last, chart,
          hascol, selection, subsetdot, seen, sstatus,
          mcsv, mjson, mbefore, mlog,
          session, keys, users_file, secrets, lastop, page,
          viewfolder, standalone, consolidated>>

(***************************************************************************)
(* Values                                                                  *)
(***************************************************************************)
None == "None"          \* Python's None, and every falsy optional string
NoPrefix == ""          \* a descriptor without module_prefix
HomePage == "Home Page"
RootNs == ""            \* importlib.import_module(modname): the root namespace
CatapultPrefix == "catapultdashboardsrc"

Range(s) == {s[k] : k \in DOMAIN s}

\* The two dashboards a session creates in this model (id is given on creation).
CatapultProject ==
    [id |-> 0, name |-> "Catapult", folder |-> "reports/catapult",
     views |-> <<"Home Page", "Mission", "Environment">>,
     profile |-> "catapult", module_prefix |-> CatapultPrefix]

RoverProject ==
    [id |-> 0, name |-> "Rover", folder |-> "reports/rover",
     views |-> <<"Mission", "Home Page">>,
     profile |-> None, module_prefix |-> NoPrefix]

ProjectTemplates == {CatapultProject, RoverProject}
Folders == {t.folder : t \in ProjectTemplates}
Bases == {"TripleCount", "MissionArchitecture", "EnvEntities"}
FileState == {"missing", "ok", "bad"}   \* absent; readable; pd.read_csv raises

ModNames == {"home_page", "mission", "environment"}
Namespaces == {RootNs, CatapultPrefix}
\* "missing": ModuleNotFoundError; "broken": the import raises another
\* exception; "norender": imported, no render attribute; "render": has render.
ModStatus == {"missing", "broken", "norender", "render"}
Outcomes == {"returns", "raises"}       \* what an invoked render(project) does

\* utilities.view_name_to_module_name: lower-case, separators collapsed.
view_name_to_module_name(tab_name) ==
    CASE tab_name = "Home Page" -> "home_page"
      [] tab_name = "Mission" -> "mission"
      [] tab_name = "Environment" -> "environment"

\* projectdetail.required_files_for_view: ordered base names of a view.
required_files_for_view(tab_name, profile) ==
    CASE tab_name = "Home Page" -> <<"TripleCount">>
      [] tab_name = "Mission" -> <<"MissionArchitecture", "EnvEntities">>
      [] tab_name = "Environment" -> <<"EnvEntities">>

(***************************************************************************)
(* Outputs of a show_tab call                                              *)
(***************************************************************************)
Event(kind, ns, name) == [kind |-> kind, ns |-> ns, name |-> name]
HomeDispatch == Event("home", RootNs, "homepage")       \* homepage.render(project)
Dispatch(ns, modname) == Event("dispatch", ns, modname) \* mod.render(project)
Dataframe(base) == Event("dataframe", "generic", base)  \* st.dataframe(df)
Info(base) == Event("info", "generic", base)            \* st.info("<base>.json ...")
LogLine(msg, ns, modname) == [msg |-> msg, ns |-> ns, name |-> modname]

Result(path, out, log, raised) ==
    [path |-> path, out |-> out, log |-> log, raised |-> raised]

\* homepage.render: the triple count, then the table of files of every view.
homepage_render(project, fs) ==
    LET st == fs[<<project.folder, "TripleCount">>]
        data == {v \in Range(project.views) :
                    required_files_for_view(v, project.profile) # <<>>}
        table == IF data # {} THEN <<Event("dataframe", "home", "files")>> ELSE <<>>
    IN  IF st = "missing"
        THEN Result("home", <<HomeDispatch, Event("info", "home", "TripleCount")>> \o table,
                    <<>>, FALSE)
        ELSE IF st = "bad"
        THEN Result("home", <<HomeDispatch>>, <<>>, TRUE)
        ELSE Result("home", <<HomeDispatch, Event("markdown", "home", "TripleCount")>> \o table,
                    <<>>, FALSE)

\* The loop of the generic fallback from the k-th required base on.
RECURSIVE generic_from(_, _, _, _)
generic_from(bases, k, folder, fs) ==
    IF k > Len(bases) THEN [out |-> <<>>, raised |-> FALSE]
    ELSE LET st == fs[<<folder, bases[k]>>]
             rest == generic_from(bases, k + 1, folder, fs)
         IN  IF st = "missing"
             THEN [out |-> <<Info(bases[k])>> \o rest.out, raised |-> rest.raised]
             ELSE IF st = "bad"
             THEN [out |-> <<>>, raised |-> TRUE]
             ELSE [out |-> <<Dataframe(bases[k])>> \o rest.out, raised |-> rest.raised]

\* The try block around import_module / hasattr / mod.render of one candidate.
\* done: render returned and show_tab returns; otherwise show_tab goes on.
try_candidate(ns, modname, msg, mods, outcome) ==
    LET status == mods[<<ns, modname>>]
    IN  IF status \in {"missing", "broken"}
        THEN [done |-> FALSE, out |-> <<>>, log |-> <<LogLine(msg, ns, modname)>>]
        ELSE IF status = "norender"
        THEN [done |-> FALSE, out |-> <<>>, log |-> <<>>]
        ELSE IF outcome = "returns"
        THEN [done |-> TRUE, out |-> <<Dispatch(ns, modname)>>, log |-> <<>>]
        ELSE [done |-> FALSE, out |-> <<Dispatch(ns, modname)>>,
              log |-> <<LogLine(msg, ns, modname)>>]

generic_fallback(tab_name, project, fs, tried) ==
    LET g == generic_from(required_files_for_view(tab_name, project.profile), 1,
                          project.folder, fs)
    IN  Result("generic", tried.out \o g.out, tried.log, g.raised)

\* Steps 1-3 of show_tab: the profile-specific module when the descriptor has
\* a module_prefix, else the root-level module; then the generic CSV preview.
resolve_module(tab_name, project, mods, fs, outcome) ==
    LET module_prefix == project.module_prefix
        modname == view_name_to_module_name(tab_name)
    IN  IF module_prefix # NoPrefix
        THEN LET t == try_candidate(module_prefix, modname,
                                    "dynamic import failed", mods, outcome)
             IN  IF t.done THEN Result("profile", t.out, t.log, FALSE)
                 ELSE generic_fallback(tab_name, project, fs, t)
        ELSE LET t == try_candidate(RootNs, modname,
                                    "root-level import failed", mods, outcome)
             IN  IF t.done THEN Result("root", t.out, t.log, FALSE)
                 ELSE generic_fallback(tab_name, project, fs, t)

\* The Home Page test is missing: the tab is resolved like every other tab.
show_tab_no_sentinel(tab_name, project, mods, fs, outcome) ==
    resolve_module(tab_name, project, mods, fs, outcome)

\* The root-level module is tried before the profile-specific one.
show_tab_root_first(tab_name, project, mods, fs, outcome) ==
    IF tab_name = HomePage THEN homepage_render(project, fs)
    ELSE LET t == try_candidate(RootNs, view_name_to_module_name(tab_name),
                                "root-level import failed", mods, outcome)
         IN  IF t.done THEN Result("root", t.out, t.log, FALSE)
             ELSE resolve_module(tab_name, project, mods, fs, outcome)

\* The import is not guarded: a module that cannot be imported ends show_tab.
show_tab_import_fatal(tab_name, project, mods, fs, outcome) ==
    IF tab_name = HomePage THEN homepage_render(project, fs)
    ELSE LET ns == IF project.module_prefix # NoPrefix
                   THEN project.module_prefix ELSE RootNs
         IN  IF mods[<<ns, view_name_to_module_name(tab_name)>>] \in {"missing", "broken"}
             THEN Result(IF ns = RootNs THEN "root" ELSE "profile", <<>>, <<>>, TRUE)
             ELSE resolve_module(tab_name, project, mods, fs, outcome)

show_tab(tab_name, project, mods, fs, outcome) ==
    IF tab_name = HomePage THEN homepage_render(project, fs)
    ELSE resolve_module(tab_name, project, mods, fs, outcome)

(***************************************************************************)
(* The script pass                                                         *)
(***************************************************************************)
projectnames == [k \in DOMAIN projectlist |-> projectlist[k].name]

\* main(): [p for p in projectlist if p['name'] == currproject][0]
project ==
    LET hits == {k \in DOMAIN projectlist : projectlist[k].name = currproject}
    IN  projectlist[CHOOSE k \in hits : \A j \in hits : k <= j]

\* The module environments of the model: every status for the two mission
\* modules, a home_page module present or not, no environment module.
ModuleEnvs ==
    {m \in [Namespaces \X ModNames -> ModStatus] :
        /\ m[<<RootNs, "environment">>] = "missing"
        /\ m[<<CatapultPrefix, "environment">>] = "missing"
        /\ m[<<RootNs, "home_page">>] \in {"missing", "render"}
        /\ m[<<CatapultPrefix, "home_page">>] \in {"missing", "render"}}

FileSystems ==
    {f \in [Folders \X Bases -> FileState] :
        \A b \in Bases : f[<<"reports/rover", b>>] = f[<<"reports/rover", "TripleCount">>]}

ResolverInit ==
    /\ projectlist = <<>>
    /\ currproject = None
    /\ modules \in ModuleEnvs
    /\ files \in FileSystems
    /\ pc = "idle"
    /\ idx = 0
    /\ trace = <<>>

\* The project creation workflow adds a descriptor under a new name.
CreateProject(t) ==
    /\ pc = "idle"
    /\ t.name \notin Range(projectnames)
    /\ projectlist' = Append(projectlist, [t EXCEPT !.id = Len(projectlist) + 1])
    /\ UNCHANGED <<currproject, modules, files, pc, idx, trace>>

\* panel() with projects: the radio sets currproject; main() then starts.
panel(choice) ==
    /\ pc = "idle"
    /\ projectlist # <<>>
    /\ choice \in Range(projectnames)
    /\ currproject' = choice
    /\ pc' = "main"
    /\ idx' = 0
    /\ trace' = <<>>
    /\ UNCHANGED <<projectlist, modules, files>>

\* The renderer edits the descriptor it was given (it drops the rendered view).
main_show_tab_mutating(outcome) ==
    /\ pc = "main"
    /\ idx < Len(project.views)
    /\ LET tab_name == project.views[idx + 1]
           r == show_tab(tab_name, project, modules, files, outcome)
       IN  /\ trace' = Append(trace, [tab |-> tab_name, path |-> r.path, out |-> r.out,
                                      log |-> r.log, raised |-> r.raised])
           /\ pc' = IF r.raised THEN "crashed" ELSE "main"
    /\ idx' = idx + 1
    /\ projectlist' = [k \in DOMAIN projectlist |->
                         IF projectlist[k].name = currproject
                         THEN [projectlist[k] EXCEPT !.views = Tail(@)]
                         ELSE projectlist[k]]
    /\ UNCHANGED <<currproject, modules, files>>

\* One iteration of main()'s loop over the tabs: show_tab(project["views"][i], project).
main_show_tab(outcome) ==
    /\ pc = "main"
    /\ idx < Len(project.views)
    /\ LET tab_name == project.views[idx + 1]
           r == show_tab(tab_name, project, modules, files, outcome)
       IN  /\ trace' = Append(trace, [tab |-> tab_name, path |-> r.path, out |-> r.out,
                                      log |-> r.log, raised |-> r.raised])
           /\ pc' = IF r.raised THEN "crashed" ELSE "main"
    /\ idx' = idx + 1
    /\ UNCHANGED <<projectlist, currproject, modules, files>>

\* main() returns after the last tab; the pass is over.
main_done ==
    /\ pc = "main"
    /\ idx = Len(project.views)
    /\ pc' = "idle"
    /\ UNCHANGED <<projectlist, currproject, modules, files, idx, trace>>

\* An exception that left show_tab ends the pass; the next interaction reruns.
rerun ==
    /\ pc = "crashed"
    /\ pc' = "idle"
    /\ UNCHANGED <<projectlist, currproject, modules, files, idx, trace>>

(***************************************************************************)
(* Authentication and the script pass of app.py                            *)
(***************************************************************************)
AuthKeys == {"authentication_status", "username", "name"}
\* projectlist, currproject and the flow flags init_session creates.
AppKeys == {"projectlist", "currproject", "flags"}

\* What is typed into the forms: nothing, two well-formed usernames, one that
\* the pattern ^[a-zA-Z0-9_-]+$ rejects; nothing, a plain name, a name with a
\* double quote in it.
Usernames == {"", "alice", "bob", "b d"}
Names == {"", "Ann", "A\"nn"}
validate_username(username) == username \in {"alice", "bob"}
has_quote(name) == name = "A\"nn"

NoUsers == <<>>
UserMaps == UNION {[S -> {"Ann"}] : S \in SUBSET {"alice", "bob"}}
NoFile == [state |-> "absent", users |-> NoUsers]
\* "corrupt": tomllib.load raises; "nosection": no credentials.usernames table.
UserFiles ==
    {[state |-> st, users |-> NoUsers] : st \in {"absent", "corrupt", "nosection"}}
        \cup {[state |-> "ok", users |-> m] : m \in UserMaps}

NoSession == [authentication_status |-> None, username |-> None, name |-> None]
NoOp == [op |-> "none", username |-> "", name |-> "", ok |-> FALSE]
NoPage == [shown |-> "none", index |-> "skipped", matches |-> 0]

AuthIdle ==
    /\ session = NoSession
    /\ keys = {}
    /\ users_file = NoFile
    /\ secrets = NoUsers
    /\ lastop = NoOp
    /\ page = NoPage

\* A browser session opens: empty session state, some user store on disk.
AuthInit ==
    /\ session = NoSession
    /\ keys = {}
    /\ users_file \in UserFiles
    /\ secrets \in UserMaps
    /\ lastop = NoOp
    /\ page = NoPage

\* The users.toml table when it can be read, the secrets otherwise.
load_credentials(file, sec) == IF file.state = "ok" THEN file.users ELSE sec

\* The file as tomllib reads it back: names are written between double quotes
\* without escaping, so a quote in a name leaves a file that does not parse.
written(users) ==
    IF \E u \in DOMAIN users : has_quote(users[u])
    THEN [state |-> "corrupt", users |-> NoUsers]
    ELSE [state |-> "ok", users |-> users]

Rejected(file) == [ok |-> FALSE, file |-> file]

save_new_user(username, name, file, sec) ==
    IF username = "" \/ name = "" THEN Rejected(file)
    ELSE IF ~validate_username(username) THEN Rejected(file)
    ELSE IF username \in DOMAIN load_credentials(file, sec) THEN Rejected(file)
    ELSE IF file.state = "corrupt" THEN Rejected(file)
    ELSE LET existing_users == IF file.state = "ok" THEN file.users ELSE NoUsers
         IN  [ok |-> TRUE,
              file |-> written([u \in DOMAIN existing_users \cup {username} |->
                                    IF u = username THEN name ELSE existing_users[u]])]

render_signup_form(new_username, new_name, file, sec) ==
    IF new_username = "" \/ new_name = "" THEN Rejected(file)
    ELSE IF ~validate_username(new_username) THEN Rejected(file)
    ELSE IF new_username \in DOMAIN load_credentials(file, sec) THEN Rejected(file)
    ELSE save_new_user(new_username, new_name, file, sec)

\* Every submitted non-empty username is let in, known or not.
render_login_form_unchecked(username_input, sess, file, sec) ==
    IF username_input # ""
    THEN [authentication_status |-> "True", username |-> username_input,
          name |-> username_input]
    ELSE sess

\* The session state after the login form was submitted.
render_login_form(username_input, sess, file, sec) ==
    IF username_input # "" /\ username_input \in DOMAIN load_credentials(file, sec)
    THEN [authentication_status |-> "True", username |-> username_input,
          name |-> load_credentials(file, sec)[username_input]]
    ELSE sess

\* A session without the key counts as authenticated.
is_authenticated_by_default(sess) == TRUE

\* st.session_state.get('authentication_status', False)
is_authenticated(sess) == sess.authentication_status = "True"

ShownPage(shown) == [shown |-> shown, index |-> "skipped", matches |-> 0]
Op(op, username, name, ok) == [op |-> op, username |-> username, name |-> name, ok |-> ok]

\* An unauthenticated pass in which no form is submitted.
auth_page ==
    /\ ~is_authenticated(session)
    /\ page' = ShownPage("login")
    /\ lastop' = Op("view", "", "", FALSE)
    /\ UNCHANGED <<session, keys, users_file, secrets, resolverVars>>

\* An unauthenticated pass in which the login form is submitted; a successful
\* login ends the pass with st.rerun().
login_submit(username_input) ==
    /\ ~is_authenticated(session)
    /\ session' = render_login_form(username_input, session, users_file, secrets)
    /\ keys' = IF is_authenticated(session') THEN keys \cup AuthKeys ELSE keys
    /\ page' = ShownPage("login")
    /\ lastop' = Op("login", username_input, "", is_authenticated(session'))
    /\ UNCHANGED <<users_file, secrets, resolverVars>>

\* An unauthenticated pass in which the signup form is submitted.
signup_submit(new_username, new_name) ==
    /\ ~is_authenticated(session)
    /\ LET r == render_signup_form(new_username, new_name, users_file, secrets)
       IN  /\ users_file' = r.file
           /\ lastop' = Op("signup", new_username, new_name, r.ok)
    /\ page' = ShownPage("login")
    /\ UNCHANGED <<session, keys, secrets, resolverVars>>

matching(pl, name) == Cardinality({k \in DOMAIN pl : pl[k].name = name})

\* The pass never assigns the value of the radio to currproject.
app_pass_without_radio(choice) ==
    /\ is_authenticated(session)
    /\ pc = "idle"
    /\ keys' = keys \cup AppKeys
    /\ lastop' = Op("select", "", "", TRUE)
    /\ IF projectlist = <<>>
       THEN page' = ShownPage("welcome")
       ELSE /\ choice \in Range(projectnames)
            /\ page' = [shown |-> IF matching(projectlist, currproject) = 0
                                  THEN "crash" ELSE "app",
                        index |-> "skipped",
                        matches |-> matching(projectlist, currproject)]
    /\ UNCHANGED <<session, users_file, secrets, resolverVars>>

\* An authenticated pass: init_session, panel (welcome page and st.stop()
\* without projects; otherwise the sidebar with the radio), then main.
app_pass(choice) ==
    /\ is_authenticated(session)
    /\ pc = "idle"
    /\ keys' = keys \cup AppKeys
    /\ lastop' = Op("select", "", "", TRUE)
    /\ IF projectlist = <<>>
       THEN /\ page' = ShownPage("welcome")
            /\ UNCHANGED currproject
       ELSE IF currproject # None /\ currproject \notin Range(projectnames)
       THEN /\ page' = [shown |-> "crash", index |-> "error", matches |-> 0]
            /\ UNCHANGED currproject
       ELSE /\ choice \in Range(projectnames)
            /\ currproject' = choice
            /\ page' = [shown |-> IF matching(projectlist, choice) = 0 THEN "crash" ELSE "app",
                        index |-> IF currproject = None THEN "skipped" ELSE "found",
                        matches |-> matching(projectlist, choice)]
    /\ UNCHANGED <<session, users_file, secrets, projectlist, modules, files, pc, idx, trace>>

\* An authenticated pass in which a dashboard is created.
create_pass(t) ==
    /\ is_authenticated(session)
    /\ CreateProject(t)
    /\ keys' = keys \cup AppKeys
    /\ lastop' = Op("create", "", t.name, TRUE)
    /\ page' = ShownPage("dialog")
    /\ UNCHANGED <<session, users_file, secrets>>

\* Only the three authentication keys are deleted.
logout_auth_keys_only ==
    /\ is_authenticated(session)
    /\ pc = "idle"
    /\ keys' = keys \ AuthKeys
    /\ session' = NoSession
    /\ lastop' = Op("logout", "", "", TRUE)
    /\ page' = ShownPage("none")
    /\ UNCHANGED <<users_file, secrets, resolverVars>>

\* An authenticated pass in which Logout is clicked: auth.logout() deletes
\* every key of the session state and ends the pass with st.rerun().
logout ==
    /\ is_authenticated(session)
    /\ pc = "idle"
    /\ keys' = {}
    /\ session' = NoSession
    /\ projectlist' = <<>>
    /\ currproject' = None
    /\ lastop' = Op("logout", "", "", TRUE)
    /\ page' = ShownPage("none")
    /\ UNCHANGED <<users_file, secrets, modules, files, pc, idx, trace>>

(***************************************************************************)
(* Hierarchy graphs of the architecture renderers                          *)
(***************************************************************************)
NA == "NaN"             \* an absent cell: pd.notna(cell) is False
MaxRecords == 2         \* rows of a dataframe in this model

GraphViews == {"mission", "environment", "functional", "system", "subset"}

\* The columns each loop reads with row.get, parent before child.
levels(view) ==
    CASE view = "mission" -> <<"Mission", "Env", "MissionEntities">>
      [] view = "environment" -> <<"Env", "EnvEntities", "EnvQualities">>
      [] view = "functional" ->
            <<"SOI", "SystemFunction", "SubFunction", "SubSubFunction">>
      [] view \in {"system", "subset"} ->
            <<"SOI", "Subsystem", "Assembly", "Component">>

\* The label of the edge between levels i and i+1.
edge_labels(view) ==
    CASE view = "mission" -> <<"has environment", "has mission entity">>
      [] view = "environment" -> <<"has entity", "has quality">>
      [] view = "functional" ->
            <<"has system function", "has sub function", "has sub sub function">>
      [] view \in {"system", "subset"} ->
            <<"has subsystem", "has assembly", "has component">>

\* The cell values of the model: the same strings occur in several columns.
ColValues(col) ==
    IF col \in {"Env", "EnvEntities", "SystemFunction", "Subsystem"} THEN {"x", "y"}
    ELSE IF col \in {"Mission", "SOI", "SubSubFunction", "Component"} THEN {"x"}
    ELSE {"y"}

Rows(view) ==
    LET cols == Range(levels(view))
    IN  {r \in [cols -> {"x", "y", NA}] : \A c \in cols : r[c] \in ColValues(c) \cup {NA}}

SeqsUpTo(S, n) == UNION {[1..k -> S] : k \in 0..n}

notna(v) == v # NA
Str(v) == v             \* str() of a cell that holds a string

NodeStmt(name) == [kind |-> "node", tail |-> name, head |-> "", label |-> ""]
EdgeStmt(tail, head, label) == [kind |-> "edge", tail |-> tail, head |-> head, label |-> label]

\* `cell not in dot.body`: dot.body holds whole DOT lines ("\t<name>\n"); the
\* test is true of a cell only when one of the lines is the bare cell text.
in_body(v, b) == \E k \in DOMAIN b : b[k].kind = "line" /\ b[k].tail = v

\* The statements one row adds for levels i..n, given the statements before it.
RECURSIVE level_statements(_, _, _, _, _)
level_statements(row, lv, lb, i, before) ==
    IF i > Len(lv) THEN <<>>
    ELSE LET v == row[lv[i]]
             node == IF i = 1 \/ ~in_body(v, before) THEN <<NodeStmt(Str(v))>> ELSE <<>>
             edge == IF i > 1 /\ notna(row[lv[i - 1]])
                     THEN <<EdgeStmt(Str(row[lv[i - 1]]), Str(v), lb[i - 1])>>
                     ELSE <<>>
             here == IF notna(v) THEN node \o edge ELSE <<>>
         IN  here \o level_statements(row, lv, lb, i + 1, before \o here)

\* The edge is added although the parent cell is absent.
row_statements_unguarded(row, lv, lb, before) ==
    LET pair(i) == IF notna(row[lv[i + 1]])
                   THEN <<NodeStmt(Str(row[lv[i + 1]])),
                          EdgeStmt(Str(row[lv[i]]), Str(row[lv[i + 1]]), lb[i])>>
                   ELSE <<>>
        first == IF notna(row[lv[1]]) THEN <<NodeStmt(Str(row[lv[1]]))>> ELSE <<>>
    IN  IF Len(lv) = 3 THEN first \o pair(1) \o pair(2)
        ELSE first \o pair(1) \o pair(2) \o pair(3)

\* The parent of every edge is the nearest present cell above, absent levels skipped.
row_statements_skipping(row, lv, lb, before) ==
    LET above(i) == {j \in 1..(i - 1) : notna(row[lv[j]])}
        top(i) == CHOOSE j \in above(i) : \A h \in above(i) : h <= j
        level(i) == IF ~notna(row[lv[i]]) THEN <<>>
                    ELSE IF i = 1 \/ above(i) = {} THEN <<NodeStmt(Str(row[lv[i]]))>>
                    ELSE <<NodeStmt(Str(row[lv[i]])),
                           EdgeStmt(Str(row[lv[top(i)]]), Str(row[lv[i]]), lb[i - 1])>>
    IN  IF Len(lv) = 3 THEN level(1) \o level(2) \o level(3)
        ELSE level(1) \o level(2) \o level(3) \o level(4)

\* The node of a child is only created together with its edge.
row_statements_orphans_dropped(row, lv, lb, before) ==
    LET level(i) == IF notna(row[lv[i]]) /\ notna(row[lv[i - 1]])
                    THEN <<NodeStmt(Str(row[lv[i]])),
                           EdgeStmt(Str(row[lv[i - 1]]), Str(row[lv[i]]), lb[i - 1])>>
                    ELSE <<>>
        first == IF notna(row[lv[1]]) THEN <<NodeStmt(Str(row[lv[1]]))>> ELSE <<>>
    IN  IF Len(lv) = 3 THEN first \o level(2) \o level(3)
        ELSE first \o level(2) \o level(3) \o level(4)

\* The body of the `for _, row in df.iterrows()` loop of a renderer.
row_statements(row, lv, lb, before) == level_statements(row, lv, lb, 1, before)

\* What a strict Digraph with these statements draws: every named node and
\* every edge endpoint; one edge per (tail, head), labelled by its last statement.
strict_nodes(b) ==
    {b[k].tail : k \in DOMAIN b} \cup {b[k].head : k \in {j \in DOMAIN b : b[j].kind = "edge"}}

\* The Digraph is not strict: every edge statement is drawn as an edge of its own.
strict_edges_multigraph(b) ==
    {<<b[k].tail, b[k].head, b[k].label, k>> : k \in {j \in DOMAIN b : b[j].kind = "edge"}}

strict_edges(b) ==
    {<<b[k].tail, b[k].head, b[k].label>> :
        k \in {j \in DOMAIN b :
                /\ b[j].kind = "edge"
                /\ ~\E h \in DOMAIN b :
                      /\ h > j
                      /\ b[h].kind = "edge"
                      /\ b[h].tail = b[j].tail
                      /\ b[h].head = b[j].head}}

NoChart == [nodes |-> {}, edges |-> {}, drawn |-> FALSE]

\* dot.body after the whole loop over the rows rs, from an empty Digraph.
RECURSIVE build_from(_, _, _, _)
build_from(rs, k, view, before) ==
    IF k > Len(rs) THEN before
    ELSE build_from(rs, k + 1, view,
                    before \o row_statements(rs[k], levels(view), edge_labels(view), before))

build_body(rs, view) == build_from(rs, 1, view, <<>>)

\* The graph st.graphviz_chart draws for a Digraph with body b.
drawn_graph(b) == [nodes |-> strict_nodes(b), edges |-> strict_edges(b), drawn |-> TRUE]

GraphIdle ==
    /\ gview = "none"
    /\ records = <<>>
    /\ gpos = 0
    /\ body = <<>>
    /\ last = <<>>
    /\ chart = NoChart

ResolverIdle ==
    /\ projectlist = <<>>
    /\ currproject = None
    /\ modules = [m \in Namespaces \X ModNames |-> "missing"]
    /\ files = [f \in Folders \X Bases |-> "missing"]
    /\ pc = "idle"
    /\ idx = 0
    /\ trace = <<>>

\* A renderer has read its dataframe and created an empty strict Digraph.
GraphInit ==
    /\ gview \in GraphViews
    /\ records \in SeqsUpTo(Rows(gview), MaxRecords)
    /\ gpos = 0
    /\ body = <<>>
    /\ last = <<>>
    /\ chart = NoChart

\* The loop fails on a row whose first-level cell is absent.
add_row_rejecting_absent ==
    /\ gpos < Len(records)
    /\ notna(records[gpos + 1][levels(gview)[1]])
    /\ LET stmts == row_statements(records[gpos + 1], levels(gview),
                                   edge_labels(gview), body)
       IN  /\ body' = body \o stmts
           /\ last' = stmts
    /\ gpos' = gpos + 1
    /\ UNCHANGED <<gview, records, chart>>

\* One iteration of the loop over the rows.
add_row ==
    /\ gpos < Len(records)
    /\ LET stmts == row_statements(records[gpos + 1], levels(gview),
                                   edge_labels(gview), body)
       IN  /\ body' = body \o stmts
           /\ last' = stmts
    /\ gpos' = gpos + 1
    /\ UNCHANGED <<gview, records, chart>>

\* st.graphviz_chart(dot) after the loop.
graphviz_chart ==
    /\ gpos = Len(records)
    /\ ~chart.drawn
    /\ chart' = drawn_graph(body)
    /\ UNCHANGED <<gview, records, gpos, body, last>>

(***************************************************************************)
(* The System Logical Architecture view: full graph, selection, subset     *)
(***************************************************************************)
NoSubset == [built |-> FALSE, body |-> <<>>]
Selections == SUBSET ColValues("Subsystem")

SystemIdle ==
    /\ hascol = TRUE
    /\ selection = {}
    /\ subsetdot = NoSubset
    /\ seen = [sel \in Selections |-> NoChart]
    /\ sstatus = "none"

\* completesystemsdf["Subsystem"].dropna().unique(): the options of the multiselect.
subsystem_opts(rs) == {rs[k]["Subsystem"] : k \in {j \in DOMAIN rs : notna(rs[j]["Subsystem"])}}

\* Rows without a Subsystem value are kept by the filter as well.
subset_filter_keeps_absent(rs, sel) ==
    SelectSeq(rs, LAMBDA r : r["Subsystem"] \in sel \/ ~notna(r["Subsystem"]))

\* completesystemsdf[completesystemsdf["Subsystem"].isin(subsystemopts)]
subset_filter(rs, sel) == SelectSeq(rs, LAMBDA r : r["Subsystem"] \in sel)

\* The dataframe of a pass is read from the three CSV files; they do not change.
SystemInit ==
    /\ gview = "system"
    /\ records \in SeqsUpTo(Rows("system"), MaxRecords)
    /\ hascol \in BOOLEAN
    /\ hascol = FALSE =>
            /\ records # <<>>
            /\ \A k \in DOMAIN records : ~notna(records[k]["Subsystem"])
    /\ gpos = 0
    /\ body = <<>>
    /\ last = <<>>
    /\ chart = NoChart
    /\ selection = {}
    /\ subsetdot = NoSubset
    /\ seen = [sel \in Selections |-> NoChart]
    /\ sstatus = "none"

Remember(sn, sel, g) == IF sn[sel].drawn THEN sn ELSE [sn EXCEPT ![sel] = g]

\* The subset graph is built and shown whatever the selection, also an empty one.
system_render_always_subset(sel) ==
    /\ gview = "system"
    /\ hascol
    /\ sel \subseteq subsystem_opts(records)
    /\ body' = build_body(records, "system")
    /\ gpos' = Len(records)
    /\ selection' = sel
    /\ subsetdot' = [built |-> TRUE, body |-> build_body(subset_filter(records, sel), "subset")]
    /\ chart' = drawn_graph(subsetdot'.body)
    /\ seen' = Remember(seen, sel, chart')
    /\ sstatus' = "shown"
    /\ UNCHANGED <<gview, records, last, hascol>>

\* The subset Digraph is kept between passes and only added to.
system_render_carrying(sel) ==
    /\ gview = "system"
    /\ hascol
    /\ sel \subseteq subsystem_opts(records)
    /\ body' = build_body(records, "system")
    /\ gpos' = Len(records)
    /\ selection' = sel
    /\ subsetdot' = IF sel # {}
                    THEN [built |-> TRUE,
                          body |-> subsetdot.body
                                     \o build_body(subset_filter(records, sel), "subset")]
                    ELSE subsetdot
    /\ chart' = IF sel # {} THEN drawn_graph(subsetdot'.body) ELSE drawn_graph(body')
    /\ seen' = Remember(seen, sel, chart')
    /\ sstatus' = "shown"
    /\ UNCHANGED <<gview, records, last, hascol>>

\* One pass of render: the full graph, the multiselect, the graph shown.
\* Listing the options of a non-empty frame without Subsystem column raises.
system_render(sel) ==
    /\ gview = "system"
    /\ body' = build_body(records, "system")
    /\ gpos' = Len(records)
    /\ IF records # <<>> /\ ~hascol
       THEN /\ sstatus' = "raised"
            /\ chart' = NoChart
            /\ subsetdot' = NoSubset
            /\ UNCHANGED <<selection, seen>>
       ELSE /\ sel \subseteq subsystem_opts(records)
            /\ selection' = sel
            /\ subsetdot' = IF sel # {}
                            THEN [built |-> TRUE,
                                  body |-> build_body(subset_filter(records, sel), "subset")]
                            ELSE NoSubset
            /\ chart' = IF sel # {} THEN drawn_graph(subsetdot'.body) ELSE drawn_graph(body')
            /\ seen' = Remember(seen, sel, chart')
            /\ sstatus' = "shown"
    /\ UNCHANGED <<gview, records, last, hascol>>

(***************************************************************************)
(* The Mission view at file level: conversions, reads, panels              *)
(***************************************************************************)
MissionArtifacts == {"MissionArchitecture", "EnvEntities", "IPTStructure"}
\* json_to_csv raises, or writes a CSV that pd.read_csv accepts or rejects.
ConvOutcomes == {"raises", "ok", "bad"}

MissionIdle ==
    /\ mcsv = [a \in MissionArtifacts |-> "missing"]
    /\ mjson = [a \in MissionArtifacts |-> FALSE]
    /\ mbefore = mcsv
    /\ mlog = <<>>

MissionInit ==
    /\ mcsv \in [MissionArtifacts -> FileState]
    /\ mjson \in [MissionArtifacts -> BOOLEAN]
    /\ mbefore = mcsv
    /\ mlog = <<>>

Shown(level, what, artifact) == [level |-> level, what |-> what, artifact |-> artifact]

\* The "not available" text ends in "Edit Data": the view modules write the
\* two words with U+202F between them, architecture.py with a plain space.
NarrowSpace == "U+202F"
PlainSpace == "U+0020"
Placeholder(artifact, space) ==
    [level |-> "info", what |-> "unavailable", artifact |-> artifact, space |-> space]

needs_conversion(csv, json, a) == csv[a] = "missing" /\ json[a]

\* An existing CSV is written again whenever its JSON exists.
converted_regenerating(csv, json, conv) ==
    [a \in DOMAIN csv |-> IF json[a] /\ conv[a] # "raises" THEN conv[a] ELSE csv[a]]

\* The conversion loop: a failed conversion warns, the loop goes on.
converted(csv, json, conv) ==
    [a \in DOMAIN csv |->
        IF needs_conversion(csv, json, a) /\ conv[a] # "raises" THEN conv[a] ELSE csv[a]]

conversion_warning(csv, json, conv, a) ==
    IF needs_conversion(csv, json, a) /\ conv[a] = "raises"
    THEN <<Shown("warning", "convert", a)>>
    ELSE <<>>

conversion_warnings(csv, json, conv) ==
    conversion_warning(csv, json, conv, "MissionArchitecture")
        \o conversion_warning(csv, json, conv, "EnvEntities")
        \o conversion_warning(csv, json, conv, "IPTStructure")

\* One of the two optional panels, its read guarded by try/except.
optional_panel(csv, a) ==
    CASE csv[a] = "missing" -> <<Shown("info", "absent", a)>>
      [] csv[a] = "bad" -> <<Shown("warning", "read", a)>>
      [] csv[a] = "ok" -> <<Shown("show", "panel", a)>>

\* The panels are drawn also after MissionArchitecture.csv could not be read.
mission_page_panels_after_error(csv, json, conv) ==
    IF csv["MissionArchitecture"] = "missing" /\ ~json["MissionArchitecture"]
    THEN <<Placeholder("MissionArchitecture", NarrowSpace)>>
    ELSE conversion_warnings(csv, json, conv)
            \o (IF converted(csv, json, conv)["MissionArchitecture"] # "ok"
                THEN <<Shown("error", "read", "MissionArchitecture")>>
                ELSE <<Shown("show", "graph", "MissionArchitecture")>>)
            \o optional_panel(converted(csv, json, conv), "IPTStructure")
            \o optional_panel(converted(csv, json, conv), "EnvEntities")

\* What render puts on the page.
mission_page(csv, json, conv) ==
    IF csv["MissionArchitecture"] = "missing" /\ ~json["MissionArchitecture"]
    THEN <<Placeholder("MissionArchitecture", NarrowSpace)>>
    ELSE IF converted(csv, json, conv)["MissionArchitecture"] # "ok"
         THEN conversion_warnings(csv, json, conv)
                \o <<Shown("error", "read", "MissionArchitecture")>>
         ELSE conversion_warnings(csv, json, conv)
                \o <<Shown("show", "graph", "MissionArchitecture")>>
                \o optional_panel(converted(csv, json, conv), "IPTStructure")
                \o optional_panel(converted(csv, json, conv), "EnvEntities")

\* One pass of mission.render over the project folder.
mission_render(conv) ==
    /\ mbefore' = mcsv
    /\ mlog' = mission_page(mcsv, mjson, conv)
    /\ mcsv' = IF mcsv["MissionArchitecture"] = "missing" /\ ~mjson["MissionArchitecture"]
               THEN mcsv
               ELSE converted(mcsv, mjson, conv)
    /\ UNCHANGED mjson

(***************************************************************************)
(* One pass of a view over a project folder: the view's own module and     *)
(* its copy in architecture.py                                             *)
(***************************************************************************)
ViewNames == {"mission", "functional", "system", "requirements"}
ArchViews == {"mission", "functional", "system"}
SystemData == "Subsystems/Assemblies/Components"
Artifacts(view) ==
    CASE view = "mission" -> MissionArtifacts
      [] view = "functional" -> {"FunctionalArchitecture"}
      [] view = "system" -> {"Subsystems", "Assemblies", "Components"}
      [] view = "requirements" -> {"Requirements"}

NoFolder == [csv |-> <<>>, json |-> <<>>]
NoResult == [done |-> FALSE, page |-> <<>>, csv |-> <<>>, chart |-> NoChart, raised |-> FALSE]
ViewResult(page_, csv, chart_, raised) ==
    [done |-> TRUE, page |-> page_, csv |-> csv, chart |-> chart_, raised |-> raised]

ViewIdle ==
    /\ viewfolder = NoFolder
    /\ standalone = NoResult
    /\ consolidated = NoResult

has_graph(events) == \E k \in DOMAIN events : events[k].what = "graph"

\* mission.render: the files it leaves, the page, the mission graph.
mission_files(csv, json, conv) ==
    IF csv["MissionArchitecture"] = "missing" /\ ~json["MissionArchitecture"]
    THEN csv
    ELSE converted(csv, json, conv)

render_mission(f, conv, recs) ==
    ViewResult(mission_page(f.csv, f.json, conv),
           mission_files(f.csv, f.json, conv),
           IF has_graph(mission_page(f.csv, f.json, conv))
           THEN drawn_graph(build_body(recs, "mission")) ELSE NoChart,
           FALSE)

\* functionalarchitecture.render
functional_page(csv, json, conv, space) ==
    LET a == "FunctionalArchitecture"
    IN  IF csv[a] = "missing" /\ ~json[a] THEN <<Placeholder(a, space)>>
        ELSE IF needs_conversion(csv, json, a) /\ conv[a] = "raises"
        THEN <<Shown("error", "convert", a)>>
        ELSE IF converted(csv, json, conv)[a] # "ok"
        THEN <<Shown("error", "read", a)>>
        ELSE <<Shown("show", "graph", a)>>

render_functional(f, conv, recs) ==
    ViewResult(functional_page(f.csv, f.json, conv, NarrowSpace),
           converted(f.csv, f.json, conv),
           IF has_graph(functional_page(f.csv, f.json, conv, NarrowSpace))
           THEN drawn_graph(build_body(recs, "functional")) ELSE NoChart,
           FALSE)

\* systemlogicalarchitecture.render
system_unavailable(csv, json) == \A a \in DOMAIN csv : csv[a] = "missing" /\ ~json[a]

system_conversion_warnings(csv, json, conv) ==
    conversion_warning(csv, json, conv, "Subsystems")
        \o conversion_warning(csv, json, conv, "Assemblies")
        \o conversion_warning(csv, json, conv, "Components")

\* _safe_read and pd.concat: the rows of the files that could be read.
completesystemsdf(csv, recs) == IF \E a \in DOMAIN csv : csv[a] = "ok" THEN recs ELSE <<>>

\* The graph handed to st.graphviz_chart: subsetdot for a selection, else systemdot.
shown_graph(recs, sel) ==
    IF sel # {}
    THEN drawn_graph(build_body(subset_filter(recs, sel), "subset"))
    ELSE drawn_graph(build_body(recs, "system"))

system_page(csv, json, conv, recs, hc, space) ==
    IF system_unavailable(csv, json) THEN <<Placeholder(SystemData, space)>>
    ELSE system_conversion_warnings(csv, json, conv)
            \o <<Shown("show", "header", SystemData)>>
            \o (IF completesystemsdf(converted(csv, json, conv), recs) # <<>> /\ ~hc
                THEN <<>>
                ELSE <<Shown("show", "graph", SystemData)>>)

render_system_logical(f, conv, recs, hc, sel) ==
    ViewResult(system_page(f.csv, f.json, conv, recs, hc, NarrowSpace),
           IF system_unavailable(f.csv, f.json) THEN f.csv ELSE converted(f.csv, f.json, conv),
           IF has_graph(system_page(f.csv, f.json, conv, recs, hc, NarrowSpace))
           THEN shown_graph(completesystemsdf(converted(f.csv, f.json, conv), recs), sel)
           ELSE NoChart,
           /\ ~system_unavailable(f.csv, f.json)
           /\ completesystemsdf(converted(f.csv, f.json, conv), recs) # <<>>
           /\ ~hc)

\* The table is shown from an existing CSV also when the JSON is absent.
render_requirements_csv_suffices(f, conv) ==
    LET a == "Requirements"
        after == converted(f.csv, f.json, conv)
    IN  IF f.csv[a] = "missing" /\ ~f.json[a]
        THEN ViewResult(<<Placeholder(a, NarrowSpace)>>, f.csv, NoChart, FALSE)
        ELSE IF needs_conversion(f.csv, f.json, a) /\ conv[a] = "raises"
        THEN ViewResult(<<Shown("error", "convert", a)>>, f.csv, NoChart, FALSE)
        ELSE IF after[a] # "ok" THEN ViewResult(<<>>, after, NoChart, TRUE)
        ELSE ViewResult(<<Shown("show", "table", a)>>, after, NoChart, FALSE)

\* requirements.render; its pd.read_csv is not guarded.
render_requirements(f, conv) ==
    LET a == "Requirements"
        after == converted(f.csv, f.json, conv)
    IN  IF ~f.json[a]
        THEN ViewResult(<<Placeholder(a, NarrowSpace)>>, f.csv, NoChart, FALSE)
        ELSE IF f.csv[a] = "missing" /\ conv[a] = "raises"
        THEN ViewResult(<<Shown("error", "convert", a)>>, f.csv, NoChart, FALSE)
        ELSE IF after[a] # "ok" THEN ViewResult(<<>>, after, NoChart, TRUE)
        ELSE ViewResult(<<Shown("show", "table", a)>>, after, NoChart, FALSE)

\* architecture._render_mission without the two optional panels.
arch_render_mission_without_panels(f, conv, recs) ==
    IF f.csv["MissionArchitecture"] = "missing" /\ ~f.json["MissionArchitecture"]
    THEN ViewResult(<<Placeholder("MissionArchitecture", PlainSpace)>>, f.csv, NoChart, FALSE)
    ELSE IF converted(f.csv, f.json, conv)["MissionArchitecture"] # "ok"
    THEN ViewResult(conversion_warnings(f.csv, f.json, conv)
                    \o <<Shown("error", "read", "MissionArchitecture")>>,
                converted(f.csv, f.json, conv), NoChart, FALSE)
    ELSE ViewResult(conversion_warnings(f.csv, f.json, conv)
                    \o <<Shown("show", "graph", "MissionArchitecture")>>,
                converted(f.csv, f.json, conv),
                drawn_graph(build_body(recs, "mission")), FALSE)

\* architecture._render_mission
arch_render_mission(f, conv, recs) ==
    IF f.csv["MissionArchitecture"] = "missing" /\ ~f.json["MissionArchitecture"]
    THEN ViewResult(<<Placeholder("MissionArchitecture", PlainSpace)>>, f.csv, NoChart, FALSE)
    ELSE IF converted(f.csv, f.json, conv)["MissionArchitecture"] # "ok"
    THEN ViewResult(conversion_warnings(f.csv, f.json, conv)
                    \o <<Shown("error", "read", "MissionArchitecture")>>,
                converted(f.csv, f.json, conv), NoChart, FALSE)
    ELSE ViewResult(conversion_warnings(f.csv, f.json, conv)
                    \o <<Shown("show", "graph", "MissionArchitecture")>>
                    \o optional_panel(converted(f.csv, f.json, conv), "IPTStructure")
                    \o optional_panel(converted(f.csv, f.json, conv), "EnvEntities"),
                converted(f.csv, f.json, conv),
                drawn_graph(build_body(recs, "mission")), FALSE)

\* architecture._render_functional
arch_render_functional(f, conv, recs) ==
    ViewResult(functional_page(f.csv, f.json, conv, PlainSpace),
           converted(f.csv, f.json, conv),
           IF has_graph(functional_page(f.csv, f.json, conv, PlainSpace))
           THEN drawn_graph(build_body(recs, "functional")) ELSE NoChart,
           FALSE)

\* architecture._render_system_logical
arch_render_system_logical(f, conv, recs, hc, sel) ==
    ViewResult(system_page(f.csv, f.json, conv, recs, hc, PlainSpace),
           IF system_unavailable(f.csv, f.json) THEN f.csv ELSE converted(f.csv, f.json, conv),
           IF has_graph(system_page(f.csv, f.json, conv, recs, hc, PlainSpace))
           THEN shown_graph(completesystemsdf(converted(f.csv, f.json, conv), recs), sel)
           ELSE NoChart,
           /\ ~system_unavailable(f.csv, f.json)
           /\ completesystemsdf(converted(f.csv, f.json, conv), recs) # <<>>
           /\ ~hc)

\* The frames of this part: no row, or one row whose cells are absent or "x".
GraphOf(view) == IF view = "requirements" THEN "functional" ELSE view
ViewFrames(view) ==
    {<<>>} \cup {<<r>> : r \in {q \in Rows(GraphOf(view)) :
                                  \A c \in DOMAIN q : q[c] \in {NA, "x"}}}

ViewInit ==
    /\ gview \in ViewNames
    /\ viewfolder \in [csv : [Artifacts(gview) -> FileState], json : [Artifacts(gview) -> BOOLEAN]]
    /\ records \in (IF gview = "requirements" THEN {<<>>} ELSE ViewFrames(gview))
    /\ hascol \in BOOLEAN
    /\ hascol = FALSE =>
            /\ gview = "system"
            /\ records # <<>>
            /\ \A k \in DOMAIN records : ~notna(records[k]["Subsystem"])
    /\ gpos = 0
    /\ body = <<>>
    /\ last = <<>>
    /\ chart = NoChart
    /\ selection = {}
    /\ subsetdot = NoSubset
    /\ seen = [sel \in Selections |-> NoChart]
    /\ sstatus = "none"
    /\ standalone = NoResult
    /\ consolidated = NoResult

\* The view is opened once, through its own module and through architecture.py,
\* on the same folder and with the same selection.
view_pass(conv, sel) ==
    /\ gview \in ViewNames
    /\ ~standalone.done
    /\ sel \subseteq (IF gview = "system" /\ hascol /\ ~system_unavailable(viewfolder.csv, viewfolder.json)
                      THEN subsystem_opts(completesystemsdf(converted(viewfolder.csv, viewfolder.json, conv),
                                                            records))
                      ELSE {})
    /\ selection' = sel
    /\ standalone' =
            CASE gview = "mission" -> render_mission(viewfolder, conv, records)
              [] gview = "functional" -> render_functional(viewfolder, conv, records)
              [] gview = "system" -> render_system_logical(viewfolder, conv, records, hascol, sel)
              [] gview = "requirements" -> render_requirements(viewfolder, conv)
    /\ consolidated' =
            CASE gview = "mission" -> arch_render_mission(viewfolder, conv, records)
              [] gview = "functional" -> arch_render_functional(viewfolder, conv, records)
              [] gview = "system" -> arch_render_system_logical(viewfolder, conv, records, hascol, sel)
              [] gview = "requirements" -> NoResult
    /\ UNCHANGED <<gview, records, gpos, body, last, chart, hascol, subsetdot, seen, sstatus,
                   viewfolder>>

ViewStart == ResolverIdle /\ MissionIdle /\ AuthIdle /\ ViewInit

ViewNext ==
    \E conv \in [Artifacts(gview) -> ConvOutcomes], sel \in Selections :
        view_pass(conv, sel) /\ UNCHANGED <<resolverVars, missionVars, authVars>>

ViewSpec == ViewStart /\ [][ViewNext]_vars

MissionStart == ResolverIdle /\ GraphIdle /\ SystemIdle /\ MissionInit /\ AuthIdle /\ ViewIdle

MissionNext ==
    \E conv \in [MissionArtifacts -> ConvOutcomes] :
        mission_render(conv) /\ UNCHANGED <<resolverVars, graphVars, systemVars, authVars, viewVars>>

MissionSpec == MissionStart /\ [][MissionNext]_vars

AuthStart == ResolverIdle /\ GraphIdle /\ SystemIdle /\ MissionIdle /\ AuthInit /\ ViewIdle

AuthNext ==
    \/ auth_page /\ UNCHANGED <<graphVars, systemVars, missionVars, viewVars>>
    \/ \E u \in Usernames : login_submit(u) /\ UNCHANGED <<graphVars, systemVars, missionVars, viewVars>>
    \/ \E u \in Usernames, n \in Names :
            signup_submit(u, n) /\ UNCHANGED <<graphVars, systemVars, missionVars, viewVars>>
    \/ \E choice \in {"Catapult", "Rover"} :
            app_pass(choice) /\ UNCHANGED <<graphVars, systemVars, missionVars, viewVars>>
    \/ \E t \in ProjectTemplates : create_pass(t) /\ UNCHANGED <<graphVars, systemVars, missionVars, viewVars>>
    \/ logout /\ UNCHANGED <<graphVars, systemVars, missionVars, viewVars>>

AuthSpec == AuthStart /\ [][AuthNext]_vars

Init == ResolverInit /\ GraphIdle /\ SystemIdle /\ MissionIdle /\ AuthIdle /\ ViewIdle

Next ==
    \/ \E t \in ProjectTemplates : CreateProject(t) /\ UNCHANGED <<graphVars, systemVars, missionVars, authVars, viewVars>>
    \/ \E choice \in {"Catapult", "Rover"} : panel(choice) /\ UNCHANGED <<graphVars, systemVars, missionVars, authVars, viewVars>>
    \/ \E outcome \in Outcomes : main_show_tab(outcome) /\ UNCHANGED <<graphVars, systemVars, missionVars, authVars, viewVars>>
    \/ main_done /\ UNCHANGED <<graphVars, systemVars, missionVars, authVars, viewVars>>
    \/ rerun /\ UNCHANGED <<graphVars, systemVars, missionVars, authVars, viewVars>>

Spec == Init /\ [][Next]_vars

GraphStart == ResolverIdle /\ GraphInit /\ SystemIdle /\ MissionIdle /\ AuthIdle /\ ViewIdle

GraphNext ==
    \/ add_row /\ UNCHANGED <<resolverVars, systemVars, missionVars, authVars, viewVars>>
    \/ graphviz_chart /\ UNCHANGED <<resolverVars, systemVars, missionVars, authVars, viewVars>>

GraphSpec == GraphStart /\ [][GraphNext]_vars

SystemStart == ResolverIdle /\ SystemInit /\ MissionIdle /\ AuthIdle /\ ViewIdle

SystemNext == \E sel \in Selections : system_render(sel) /\ UNCHANGED <<resolverVars, missionVars, authVars, viewVars>>

SystemSpec == SystemStart /\ [][SystemNext]_vars

(***************************************************************************)
(* Properties of the view resolution (checked under Spec)                  *)
(***************************************************************************)
\* The namespace show_tab looks the module of a tab up in, for the current project.
CandidateNs == IF project.module_prefix # NoPrefix THEN project.module_prefix ELSE RootNs
CandidateStatus(tab_name) == modules[<<CandidateNs, view_name_to_module_name(tab_name)>>]
GenericEvents(out) == SelectSeq(out, LAMBDA e : e.ns = "generic")
Dispatches(out) == {out[j] : j \in {i \in DOMAIN out : out[i].kind = "dispatch"}}

\* What a preview that handles every required base in order shows, up to the
\* first CSV that cannot be read.
PreviewStop(tab_name) ==
    LET bases == required_files_for_view(tab_name, project.profile)
        bad == {j \in DOMAIN bases : files[<<project.folder, bases[j]>>] = "bad"}
    IN  IF bad = {} THEN Len(bases) + 1 ELSE CHOOSE j \in bad : \A h \in bad : j <= h

PreviewOf(tab_name, n) ==
    LET bases == required_files_for_view(tab_name, project.profile)
    IN  [j \in 1..n |-> IF files[<<project.folder, bases[j]>>] = "missing"
                        THEN Info(bases[j]) ELSE Dataframe(bases[j])]

\* C1: a tab named exactly "Home Page" is rendered by the centralized
\* homepage.render alone: no profile-specific or root-level module is invoked
\* for it and no generic CSV preview is shown, whatever modules exist.
C1_HomePageCentral ==
    \A k \in DOMAIN trace :
        trace[k].tab = HomePage =>
            /\ trace[k].path = "home"
            /\ trace[k].out[1] = HomeDispatch
            /\ Dispatches(trace[k].out) = {}
            /\ GenericEvents(trace[k].out) = <<>>

C1_Witness ==
    \E k \in DOMAIN trace :
        /\ trace[k].tab = HomePage
        /\ project.module_prefix # NoPrefix
        /\ modules[<<project.module_prefix, "home_page">>] = "render"
        /\ modules[<<RootNs, "home_page">>] = "render"

\* C2: with a module_prefix and a profile-specific module exposing render,
\* show_tab dispatches to that module first and never invokes the root-level
\* module of the same name, even when that one exists too.
C2_ProfileBeforeRoot ==
    \A k \in DOMAIN trace :
        LET modname == view_name_to_module_name(trace[k].tab)
        IN  (/\ trace[k].tab # HomePage
             /\ project.module_prefix # NoPrefix
             /\ modules[<<project.module_prefix, modname>>] = "render")
            => /\ trace[k].out # <<>>
               /\ trace[k].out[1] = Dispatch(project.module_prefix, modname)
               /\ Dispatch(RootNs, modname) \notin Dispatches(trace[k].out)

C2_Witness ==
    \E k \in DOMAIN trace :
        /\ trace[k].tab = "Mission"
        /\ project.module_prefix # NoPrefix
        /\ modules[<<project.module_prefix, "mission">>] = "render"
        /\ modules[<<RootNs, "mission">>] = "render"
        /\ trace[k].path = "profile"

\* C3 (as claimed): once a renderer exposing render was found and invoked, the
\* generic tabular preview is not run for that tab, whatever the renderer does.
C3_DispatchStops ==
    \A k \in DOMAIN trace :
        Dispatches(trace[k].out) # {} => GenericEvents(trace[k].out) = <<>>

\* C4 (amended): a candidate module that cannot be imported, whose import
\* raises, or that has no render attribute never makes show_tab raise by
\* itself: the generic preview runs exactly as for a missing module.  The
\* failure is logged when the import raised; a module without render falls
\* through without any log line.
C4_LookupFailureFallsThrough ==
    \A k \in DOMAIN trace :
        LET tab_name == trace[k].tab
            status == CandidateStatus(tab_name)
            stop == PreviewStop(tab_name)
        IN  (tab_name # HomePage /\ status \in {"missing", "broken", "norender"})
            => /\ trace[k].path = "generic"
               /\ trace[k].out = PreviewOf(tab_name, stop - 1)
               /\ trace[k].raised =
                    (stop <= Len(required_files_for_view(tab_name, project.profile)))
               /\ status \in {"missing", "broken"} =>
                    /\ Len(trace[k].log) = 1
                    /\ trace[k].log[1].ns = CandidateNs
                    /\ trace[k].log[1].name = view_name_to_module_name(tab_name)
               /\ status = "norender" => trace[k].log = <<>>

C4_Witness ==
    \E k \in DOMAIN trace :
        /\ trace[k].tab # HomePage
        /\ CandidateStatus(trace[k].tab) = "norender"
        /\ trace[k].path = "generic"
        /\ ~trace[k].raised

\* C4 (as claimed): in each of the three cases the failure is recorded in the log.
C4_FailureAlwaysRecorded ==
    \A k \in DOMAIN trace :
        (/\ trace[k].tab # HomePage
         /\ CandidateStatus(trace[k].tab) \in {"missing", "broken", "norender"})
        => trace[k].path = "generic" /\ trace[k].log # <<>>

\* C5 (as claimed, the order of the docstring): with a module_prefix and a
\* profile-specific module that is missing or has no render, the root-level
\* module of the same name is invoked before any generic preview.
C5_RootAfterProfile ==
    \A k \in DOMAIN trace :
        LET modname == view_name_to_module_name(trace[k].tab)
        IN  (/\ trace[k].tab # HomePage
             /\ project.module_prefix # NoPrefix
             /\ modules[<<project.module_prefix, modname>>] # "render"
             /\ modules[<<RootNs, modname>>] = "render")
            => Dispatch(RootNs, modname) \in Dispatches(trace[k].out)

\* C6 (as claimed): no show_tab call raises to main(), so no pass is cut short
\* before the later views of the project.
C6_NeverRaisesToMain ==
    /\ pc # "crashed"
    /\ \A k \in DOMAIN trace : ~trace[k].raised

\* C7 (as claimed): a generic fallback shows exactly one output per required
\* base, in order: the table when <base>.csv exists, else the placeholder.
C7_PreviewCoversEveryBase ==
    \A k \in DOMAIN trace :
        trace[k].path = "generic" =>
            GenericEvents(trace[k].out) =
                PreviewOf(trace[k].tab,
                          Len(required_files_for_view(trace[k].tab, project.profile)))

\* C8: a show_tab call, whatever path it takes and whether or not it fails,
\* leaves every descriptor of projectlist and currproject as they were.
C8_ResolutionIsReadOnly ==
    [][(pc = "main" /\ idx' = idx + 1)
        => (projectlist' = projectlist /\ currproject' = currproject)]_vars

C8_Witness ==
    /\ Len(trace) = 2
    /\ trace[1].path = "home"
    /\ trace[2].path = "generic"
    /\ trace[2].raised
    /\ Len(projectlist) = 2

(***************************************************************************)
(* Properties of the hierarchy graphs (checked under GraphSpec)            *)
(***************************************************************************)
Pairs == 1..(Len(levels(gview)) - 1)
Parent(row, i) == row[levels(gview)[i]]
Child(row, i) == row[levels(gview)[i + 1]]
StmtNodes(b) == {b[k].tail : k \in {j \in DOMAIN b : b[j].kind = "node"}}
StmtEdges(b) == {<<b[k].tail, b[k].head, b[k].label>> :
                    k \in {j \in DOMAIN b : b[j].kind = "edge"}}
EdgesOfPair(E, i) == {e \in E : e[3] = edge_labels(gview)[i]}

\* C9: for the row just processed and every consecutive level pair: child
\* present with parent absent adds the child node and no edge of that pair;
\* parent present with child absent adds the parent node and no edge of that
\* pair.  A drawn graph has no edge of a pair in which no record has both.
C9_AbsentEndpoint ==
    /\ gpos > 0 =>
        \A i \in Pairs :
            LET row == records[gpos]
            IN  /\ (notna(Child(row, i)) /\ ~notna(Parent(row, i)))
                    => /\ Child(row, i) \in StmtNodes(last)
                       /\ EdgesOfPair(StmtEdges(last), i) = {}
                /\ (notna(Parent(row, i)) /\ ~notna(Child(row, i)))
                    => /\ Parent(row, i) \in StmtNodes(last)
                       /\ EdgesOfPair(StmtEdges(last), i) = {}
    /\ chart.drawn =>
        \A i \in Pairs :
            (\A k \in DOMAIN records :
                ~notna(Parent(records[k], i)) \/ ~notna(Child(records[k], i)))
            => EdgesOfPair(chart.edges, i) = {}

C9_Witness ==
    /\ chart.drawn
    /\ Len(records) = 2
    /\ \E i \in Pairs : notna(Child(records[1], i)) /\ ~notna(Parent(records[1], i))
    /\ \E i \in Pairs : notna(Parent(records[2], i)) /\ ~notna(Child(records[2], i))
    /\ chart.nodes # {}
    /\ chart.edges = {}

\* C10: every edge emitted or drawn joins, under the label of a pair i, the
\* present level-i value and the present level-(i+1) value of one processed
\* record: no absent endpoint, no values of two records, no skipped level.
HasRecordWitness(e) ==
    \E k \in 1..gpos : \E i \in Pairs :
        /\ notna(Parent(records[k], i))
        /\ notna(Child(records[k], i))
        /\ e = <<Str(Parent(records[k], i)), Str(Child(records[k], i)),
                 edge_labels(gview)[i]>>

C10_EdgeHasRecordWitness ==
    /\ \A e \in StmtEdges(body) : HasRecordWitness(e)
    /\ \A e \in chart.edges : HasRecordWitness(e)

C10_Witness ==
    /\ chart.drawn
    /\ chart.edges # {}
    /\ Len(records) = 2
    /\ \E i \in Pairs :
        /\ notna(Parent(records[1], i)) /\ ~notna(Child(records[1], i))
        /\ ~notna(Parent(records[2], i)) /\ notna(Child(records[2], i))
    /\ \E i \in Pairs : \E j \in Pairs :
        /\ j = i + 1
        /\ notna(Parent(records[1], i))
        /\ ~notna(Child(records[1], i))
        /\ notna(Child(records[1], j))

Doubled(rs) == rs \o rs
Permuted(rs, f) == [k \in DOMAIN rs |-> rs[f[k]]]
SameGraph(g, h) == g.nodes = h.nodes /\ g.edges = h.edges
PresentValues(rs) ==
    {Str(rs[k][c]) : <<k, c>> \in {kc \in (DOMAIN rs) \X Range(levels(gview)) :
                                     notna(rs[kc[1]][kc[2]])}}
Endpoints(E) == {e[1] : e \in E} \cup {e[2] : e \in E}

\* C11: the graph drawn for the records R has the node set and the edge set
\* of the graph built from R followed by R again; two identical records give
\* the graph of one of them.
C11_IdempotentInRecords ==
    chart.drawn =>
        /\ SameGraph(chart, drawn_graph(build_body(Doubled(records), gview)))
        /\ (Len(records) = 2 /\ records[1] = records[2])
            => SameGraph(chart, drawn_graph(build_body(<<records[1]>>, gview)))

C11_Witness ==
    /\ chart.drawn
    /\ gview = "mission"
    /\ Len(records) = 2
    /\ records[1] = records[2]
    /\ chart.nodes = {"x", "y"}
    /\ chart.edges = {<<"x", "y", "has environment">>}

\* C12 (as claimed): every permutation of the records gives the node set and
\* the labelled edge set of the drawn graph.
C12_OrderIndependent ==
    chart.drawn =>
        \A f \in Permutations(DOMAIN records) :
            SameGraph(chart, drawn_graph(build_body(Permuted(records, f), gview)))

\* C13: a string is a node of the drawn graph exactly when it is the present
\* value of a level column in some record or an endpoint of a drawn edge.
C13_NodesArePresentValues ==
    chart.drawn =>
        /\ chart.nodes = PresentValues(records) \cup Endpoints(chart.edges)
        /\ PresentValues(records) \subseteq chart.nodes
        /\ Endpoints(chart.edges) \subseteq chart.nodes

C13_Witness ==
    /\ chart.drawn
    /\ chart.edges = {}
    /\ chart.nodes = {"x", "y"}
    /\ \E k \in DOMAIN records : \E i \in Pairs :
        notna(Child(records[k], i)) /\ ~notna(Parent(records[k], i))

\* C17 (as claimed): the drawn edges are the emitted edge statements
\* deduplicated by the full triple (parent, child, label), so that the same
\* parent and child under two labels are two edges.
C17_DedupByTriple ==
    chart.drawn => chart.edges = StmtEdges(body)

\* C18: the label list of every loop has one label per consecutive level
\* pair, and the loop never fails: every row, also one with absent cells, is
\* processed and the graph, also of an empty record set, is drawn.
C18_BuildNeverFails ==
    /\ \A v \in GraphViews : Len(edge_labels(v)) = Len(levels(v)) - 1
    /\ gpos < Len(records) => ENABLED (add_row /\ UNCHANGED <<resolverVars, systemVars, missionVars, authVars, viewVars>>)
    /\ gpos = Len(records) =>
            (chart.drawn \/ ENABLED (graphviz_chart /\ UNCHANGED <<resolverVars, systemVars, missionVars, authVars, viewVars>>))

C18_Witness ==
    /\ chart.drawn
    /\ Len(records) = 2
    /\ \A c \in Range(levels(gview)) : ~notna(records[1][c])
    /\ \E c \in Range(levels(gview)) : ~notna(records[2][c])
    /\ chart.nodes # {}

(***************************************************************************)
(* Properties of the System Logical Architecture view (under SystemSpec)   *)
(***************************************************************************)
FullGraph == drawn_graph(body)              \* what systemdot draws
SubsetGraph == drawn_graph(subsetdot.body)  \* what subsetdot draws
SelectedRecords ==
    [k \in 1..Cardinality({j \in DOMAIN records : records[j]["Subsystem"] \in selection}) |->
        records[CHOOSE j \in DOMAIN records :
                    /\ records[j]["Subsystem"] \in selection
                    /\ Cardinality({h \in 1..j : records[h]["Subsystem"] \in selection}) = k]]

\* C14 (as claimed): the nodes and the edges of the subset graph are nodes and
\* edges of the full graph built from all records.
C14_SubsetMonotone ==
    (sstatus = "shown" /\ subsetdot.built) =>
        /\ SubsetGraph.nodes \subseteq FullGraph.nodes
        /\ SubsetGraph.edges \subseteq FullGraph.edges

\* C15 (amended): a subset graph is built only for a non-empty selection and
\* then contains every selected subsystem, so it is never empty; with an empty
\* selection no subset graph exists and the renderer itself shows the full graph.
C15_SubsetOnlyForSelection ==
    sstatus = "shown" =>
        /\ selection = {} => (~subsetdot.built /\ SameGraph(chart, FullGraph))
        /\ selection # {} =>
            /\ subsetdot.built
            /\ SameGraph(chart, SubsetGraph)
            /\ selection \subseteq chart.nodes

C15_Witness ==
    /\ sstatus = "shown"
    /\ selection = {}
    /\ ~subsetdot.built
    /\ chart.nodes # {}
    /\ seen[{"x"}].drawn

\* C15 (as claimed): for an empty selection the subgraph step yields an empty
\* graph, no nodes and no edges.
C15_EmptySelectionEmptyGraph ==
    (sstatus = "shown" /\ selection = {}) =>
        /\ subsetdot.built
        /\ SubsetGraph.nodes = {}
        /\ SubsetGraph.edges = {}

\* C16: the graph shown is, for a non-empty selection, the graph built from
\* exactly the records whose Subsystem value is in the selection (records
\* without Subsystem excluded), and for an empty selection the graph built
\* from all records.
C16_ShownGraph ==
    sstatus = "shown" =>
        SameGraph(chart,
                  drawn_graph(build_body(IF selection = {} THEN records ELSE SelectedRecords,
                                         "system")))

C16_Witness ==
    /\ sstatus = "shown"
    /\ selection = {"y"}
    /\ Len(records) = 2
    /\ ~notna(records[1]["Subsystem"]) /\ notna(records[1]["SOI"])
    /\ records[2]["Subsystem"] = "y"
    /\ chart.nodes = {"y"}

\* C20: the graph shown for a selection is the graph first shown for that
\* selection, whatever passes came in between: clearing a selection shows the
\* full graph again, and nothing of an earlier pass is carried over.
C20_NoCarryOver ==
    sstatus = "shown" =>
        /\ seen[selection].drawn
        /\ SameGraph(chart, seen[selection])
        /\ selection = {} => SameGraph(chart, drawn_graph(build_body(records, "system")))

C20_Witness ==
    /\ sstatus = "shown"
    /\ selection = {}
    /\ seen[{"x"}].drawn
    /\ seen[{"y"}].drawn
    /\ seen[{"x"}].nodes # chart.nodes
    /\ seen[{"y"}].nodes # chart.nodes

(***************************************************************************)
(* Properties of the Mission view at file level (under MissionSpec)        *)
(***************************************************************************)
OnPage(level, what, a) == \E k \in DOMAIN mlog : mlog[k] = Shown(level, what, a)
PanelAttempted(a) ==
    OnPage("info", "absent", a) \/ OnPage("warning", "read", a) \/ OnPage("show", "panel", a)
MissionFailed ==
    \/ OnPage("warning", "convert", "MissionArchitecture")
    \/ OnPage("error", "read", "MissionArchitecture")

\* C19 (amended): in the Mission view a failed conversion is a warning for
\* its artifact and the other conversions are still attempted; a failure to
\* read IPTStructure or EnvEntities is a warning for that artifact and both
\* panels are attempted; a failure to read MissionArchitecture.csv (also after
\* its conversion failed) is an error that ends the pass: the graph is not
\* drawn and neither panel is attempted.
C19_MissionReadEndsPass ==
    mlog # <<>> =>
        /\ OnPage("error", "read", "MissionArchitecture") =>
                /\ mlog[Len(mlog)] = Shown("error", "read", "MissionArchitecture")
                /\ ~OnPage("show", "graph", "MissionArchitecture")
                /\ ~PanelAttempted("IPTStructure")
                /\ ~PanelAttempted("EnvEntities")
        /\ OnPage("warning", "convert", "MissionArchitecture")
                => OnPage("error", "read", "MissionArchitecture")
        /\ OnPage("show", "graph", "MissionArchitecture") =>
                /\ PanelAttempted("IPTStructure")
                /\ PanelAttempted("EnvEntities")
        /\ mlog # <<Placeholder("MissionArchitecture", NarrowSpace)>> =>
                \A a \in MissionArtifacts :
                    needs_conversion(mbefore, mjson, a) =>
                        (OnPage("warning", "convert", a) \/ mcsv[a] # "missing")
        /\ \A a \in {"IPTStructure", "EnvEntities"} :
                OnPage("warning", "read", a) => mcsv[a] = "bad"

C19_Witness ==
    /\ mlog = <<Shown("warning", "convert", "MissionArchitecture"),
                Shown("error", "read", "MissionArchitecture")>>
    /\ mcsv["IPTStructure"] = "ok"
    /\ mcsv["EnvEntities"] = "ok"

\* C19 (as claimed): a failure converting or reading MissionArchitecture does
\* not prevent the IPT Structure and Environment Entities panels from being
\* attempted.
C19_MissionFailureIsolated ==
    MissionFailed => (PanelAttempted("IPTStructure") /\ PanelAttempted("EnvEntities"))

(***************************************************************************)
(* Properties of authentication and the script pass (under AuthSpec)       *)
(***************************************************************************)
Accepted(file, sec) == DOMAIN load_credentials(file, sec)
OtherParts == <<graphVars, systemVars, missionVars, viewVars>>

C22_AppOnlyWhenAuthenticated ==
    [][ /\ (page'.shown \in {"welcome", "app", "crash", "dialog"}
              \/ lastop'.op \in {"select", "create", "logout"})
            => session.authentication_status = "True"
        /\ session.authentication_status # "True" =>
            /\ page'.shown = "login"
            /\ keys' \cap AppKeys = keys \cap AppKeys
            /\ UNCHANGED <<projectlist, currproject>> ]_vars

C22_Witness ==
    /\ page.shown = "app"
    /\ lastop.op = "select"
    /\ session.authentication_status = "True"
    /\ AppKeys \subseteq keys

\* C23: after logout no key is left in the session state (authentication,
\* project list, current project, flags), the next pass is unauthenticated and
\* can only show the login page, and a login after it finds an empty project
\* list.
C23_LogoutClearsSession ==
    /\ lastop.op = "logout" =>
            /\ keys = {}
            /\ session = NoSession
            /\ projectlist = <<>>
            /\ currproject = None
            /\ ENABLED (auth_page /\ UNCHANGED OtherParts)
            /\ ~ENABLED (\E choice \in {"Catapult", "Rover"} :
                            app_pass(choice) /\ UNCHANGED OtherParts)
    /\ ~is_authenticated(session) => (keys = {} /\ projectlist = <<>> /\ currproject = None)
    /\ (lastop.op = "login" /\ lastop.ok) =>
            (keys = AuthKeys /\ projectlist = <<>> /\ currproject = None)

C23_Witness ==
    /\ lastop.op = "logout"
    /\ keys = {}
    /\ projectlist = <<>>
    /\ ~is_authenticated(session)

\* C24: the session becomes authenticated only in a pass that submits the
\* login form with a non-empty username that is a key of the loaded
\* credentials; a login with an empty or unknown username, and every signup
\* submission, leave authentication_status, username and name as they were.
C24_OnlyKnownLoginAuthenticates ==
    [][ /\ (session'.authentication_status = "True" /\ session.authentication_status # "True") =>
            /\ lastop'.op = "login"
            /\ lastop'.username # ""
            /\ lastop'.username \in Accepted(users_file, secrets)
            /\ session'.username = lastop'.username
        /\ (lastop'.op = "login"
              /\ (lastop'.username = "" \/ lastop'.username \notin Accepted(users_file, secrets)))
            => UNCHANGED session
        /\ lastop'.op = "signup" => UNCHANGED session ]_vars

C24_Witness ==
    /\ lastop.op = "login"
    /\ lastop.ok
    /\ session.authentication_status = "True"
    /\ session.username = "bob"
    /\ "bob" \in Accepted(users_file, secrets)
    /\ "bob" \notin DOMAIN secrets

\* C25 (as claimed): after a successful signup every username accepted before
\* it, from users.toml or from the secrets, is still accepted; a rejected
\* signup leaves the user store unchanged.
C25_SignupOnlyAdds ==
    [][ /\ (lastop'.op = "signup" /\ lastop'.ok) =>
                Accepted(users_file, secrets) \subseteq Accepted(users_file', secrets)
        /\ (lastop'.op = "signup" /\ ~lastop'.ok) => UNCHANGED users_file ]_vars

(***************************************************************************)
(* Properties of a view pass over a project folder (under ViewSpec)        *)
(***************************************************************************)
ConversionTried(r, a) ==
    \/ r.csv[a] # viewfolder.csv[a]
    \/ \E k \in DOMAIN r.page : r.page[k].what = "convert" /\ r.page[k].artifact = a
OnlyMissingConverted(r) ==
    r.done =>
        \A a \in Artifacts(gview) :
            /\ ConversionTried(r, a) => (viewfolder.csv[a] = "missing" /\ viewfolder.json[a])
            /\ viewfolder.csv[a] # "missing" => r.csv[a] = viewfolder.csv[a]
            /\ ~viewfolder.json[a] => r.csv[a] = viewfolder.csv[a]

\* C26: a render pass of an architecture view, through its own module or
\* through architecture.py, attempts a conversion for an artifact only when
\* its CSV is missing and its JSON exists; an existing CSV is left as it was,
\* and nothing is converted without a JSON.
C26_ConvertOnlyMissingCsv ==
    gview \in ArchViews => (OnlyMissingConverted(standalone) /\ OnlyMissingConverted(consolidated))

C26_Witness ==
    /\ gview = "system"
    /\ standalone.done
    /\ viewfolder.csv["Subsystems"] = "bad" /\ viewfolder.json["Subsystems"]
    /\ standalone.csv["Subsystems"] = "bad"
    /\ viewfolder.csv["Assemblies"] = "missing" /\ viewfolder.json["Assemblies"]
    /\ standalone.csv["Assemblies"] = "ok"
    /\ viewfolder.csv["Components"] = "missing" /\ ~viewfolder.json["Components"]
    /\ standalone.csv["Components"] = "missing"

TableShown == standalone.page = <<Shown("show", "table", "Requirements")>>

\* C27: requirements.render shows the table only when Requirements.json
\* exists: without the JSON it shows the placeholder and returns, also when
\* Requirements.csv is present; with the JSON it shows the table read from the
\* existing CSV or from the CSV a successful conversion wrote.
C27_RequirementsNeedJson ==
    (gview = "requirements" /\ standalone.done) =>
        /\ ~viewfolder.json["Requirements"] =>
                /\ standalone.page = <<Placeholder("Requirements", NarrowSpace)>>
                /\ standalone.csv = viewfolder.csv
                /\ ~standalone.raised
        /\ TableShown =>
                /\ viewfolder.json["Requirements"]
                /\ standalone.csv["Requirements"] = "ok"
        /\ (viewfolder.json["Requirements"] /\ standalone.csv["Requirements"] = "ok")
                => TableShown

C27_Witness ==
    /\ gview = "requirements"
    /\ standalone.done
    /\ ~viewfolder.json["Requirements"]
    /\ viewfolder.csv["Requirements"] = "ok"
    /\ standalone.page = <<Placeholder("Requirements", NarrowSpace)>>

PlainText(events) ==
    [k \in DOMAIN events |->
        IF events[k].what = "unavailable"
        THEN [events[k] EXCEPT !.space = PlainSpace]
        ELSE events[k]]

\* C28 (amended): on the same folder and selection the three renderers of
\* architecture.py leave the same files, draw the same graph and put the same
\* outputs on the page as the standalone modules, except that the "not
\* available" placeholder is written with a plain space in "Edit Data" where
\* the standalone modules have the narrow no-break space U+202F.
C28_SameUpToPlaceholderSpace ==
    (gview \in ArchViews /\ standalone.done) =>
        /\ consolidated.done
        /\ PlainText(standalone.page) = consolidated.page
        /\ standalone.csv = consolidated.csv
        /\ standalone.chart = consolidated.chart
        /\ standalone.raised = consolidated.raised

C28_Witness ==
    /\ gview = "mission"
    /\ standalone.done
    /\ consolidated.done
    /\ standalone.chart.drawn
    /\ standalone.chart.nodes # {}
    /\ Len(standalone.page) = 4
    /\ standalone.page[1].what = "convert"
    /\ standalone.page = consolidated.page

\* C28 (as claimed): the renderers of architecture.py produce the same sequence
\* of outputs and the same file conversions as the standalone modules.
C28_SameOutputs ==
    (gview \in ArchViews /\ standalone.done) => standalone = consolidated
====
